---- MODULE Spec2Model ----
(***************************************************************************)
(* Model of the turtle-graphics Canvas (src/src/lib.rs): the turtle state  *)
(* stack, the list of paths, and the SVG / EPS serializers.                *)
(*                                                                         *)
(* f32 values are modelled as fixed-point integers with One units per 1.0  *)
(* (three decimals).  Headings are multiples of 90 degrees, where sine and *)
(* cosine are -1, 0 or 1 up to f32 rounding (|error| < 1e-7, far below the *)
(* resolution of the fixed-point grid).                                    *)
(***************************************************************************)
EXTENDS Integers, Sequences, FiniteSets, TLC

\* ---------------------------------------------------------------- f32 ----
One == 1000

Abs(a) == IF a < 0 THEN -a ELSE a
Sgn(a) == IF a < 0 THEN -1 ELSE 1
Min(a, b) == IF a < b THEN a ELSE b
Max(a, b) == IF a > b THEN a ELSE b

\* a * b on f32, rounded to the grid (split to stay inside 32 bits)
Mul(a, b) ==
    LET m == Abs(a)
        n == Abs(b)
    IN  Sgn(a) * Sgn(b) * ((m \div One) * n + ((m % One) * n) \div One)

\* a / b on f32, rounded to the grid
Div(a, b) ==
    LET m == Abs(a)
        n == Abs(b)
    IN  Sgn(a) * Sgn(b) * ((m \div n) * One + ((m % n) * One) \div n)

\* the spacing of f32 values around m >= 0: 24 significant bits
RECURSIVE Ulp(_)
Ulp(m) == IF m < 2^24 THEN 1 ELSE 2 * Ulp(m \div 2)

\* rounding to the nearest f32, ties to even
F32(n) ==
    LET m == Abs(n)
        u == Ulp(m)
        q == m \div u
        r == m % u
        up == 2 * r > u \/ (2 * r = u /\ q % 2 = 1)
    IN  Sgn(n) * (IF up THEN q + 1 ELSE q) * u

\* a + b on f32
F32Add(a, b) == F32(a + b)

\* std::f32::consts::PI
PI == 3142

\* ------------------------------------------------------------- bounds ----
MaxOps == 4
MaxSinkOps == 3
MaxSinkFail == 3
MaxRotateOps == 3
MaxFarOps == 3

\* inputs of the operations
Distances == {10 * One, 100 * One}
ShortDistances == {10 * One}
Angles == {90 * One}
WideAngles == {1, 90 * One, 20000 * One}
FarDistances == {1, 100 * One, 20000 * One}
P1 == <<30 * One, 0>>
P2 == <<0, -200 * One>>
Targets == {P1, P2}

\* ----------------------------------------------------------- Position ----
origin == <<0, 0>>

\* Position::min, Position::max, Position::min_max
PosMin(p, q) == <<Min(p[1], q[1]), Min(p[2], q[2])>>
PosMax(p, q) == <<Max(p[1], q[1]), Max(p[2], q[2])>>
min_max(p, mm) == <<PosMin(p, mm[1]), PosMax(p, mm[2])>>

\* ------------------------------------------------------------- Bounds ----
\* Option<(Position, Position)>: <<>> is None, <<min, max>> is Some
BoundsNew == <<>>

add_position(b, pos) == IF b = <<>> THEN <<pos, pos>> ELSE min_max(pos, b)

is_bounded(b) == b # <<>>
width(b) == Abs(b[2][1] - b[1][1])
height(b) == Abs(b[2][2] - b[1][2])
min_x(b) == b[1][1]
min_y(b) == b[1][2]
max_x(b) == b[2][1]
max_y(b) == b[2][2]

\* -------------------------------------------------------------- units ----
\* impl Into<Radiant> for Degree
ToRadiant(deg) == Div(Mul(deg, PI), 180 * One)

\* impl Neg for Distance, impl Neg for Degree
Neg(v) == -v

\* f32::sin_cos at a multiple of a quarter turn: <<sin, cos>>
sin_cos(rad) ==
    LET half == PI \div 2
        q == (rad + 100 * PI + half \div 2) \div half
        k == q % 4
    IN  CASE k = 0 -> <<0, One>>
          [] k = 1 -> <<One, 0>>
          [] k = 2 -> <<0, -One>>
          [] k = 3 -> <<-One, 0>>

\* ------------------------------------------------------------- Canvas ----
VARIABLES
    states,     \* Canvas::states, the stack of TurtleState, top last
    paths,      \* Canvas::paths
    hist,       \* the calls made since Canvas::new() while they follow a
                \* scenario, otherwise only the last call
    out,        \* what the last call wrote to its sink
    res,        \* how the last call ended: "ok", "err" (io::Error), "panic"
    prev,       \* states and paths as they were before the last call
    nops,       \* number of calls made that take &mut self
    saved,      \* the current state as each push() not yet popped found it
    tally       \* number of push() and of pop() calls made

vars == <<states, paths, hist, out, res, prev, nops, saved, tally>>

TurtleState(pos, angle, pendown) ==
    [pos |-> pos, angle |-> angle, pendown |-> pendown]

Last(s) == s[Len(s)]
Front(s) == SubSeq(s, 1, Len(s) - 1)

\* Canvas::current_state
current_state(st) == Last(st)

SetBottom(st, field, value) ==
    [st EXCEPT ![1] = [@ EXCEPT ![field] = value]]

\* Canvas::current_state_mut().field = value
SetTop(st, field, value) ==
    [st EXCEPT ![Len(st)] = [@ EXCEPT ![field] = value]]

direction_mirrored(st, distance) ==
    LET rad == ToRadiant(current_state(st).angle)
        sc == sin_cos(rad)
        dx == Mul(sc[1], distance)
        dy == Mul(sc[2], distance)
    IN  <<dx, dy>>

direction_sin_only(st, distance) ==
    LET rad == ToRadiant(current_state(st).angle)
        sc == sin_cos(rad)
        dx == Mul(-sc[1], distance)
        dy == Mul(sc[1], distance)
    IN  <<dx, dy>>

\* Canvas::direction
direction(st, distance) ==
    LET rad == ToRadiant(current_state(st).angle)
        sc == sin_cos(rad)
        dx == Mul(-sc[1], distance)
        dy == Mul(sc[2], distance)
    IN  <<dx, dy>>

line_to_first(ps, dst) == [ps EXCEPT ![1] = Append(@, dst)]

\* Canvas::line_to
line_to(ps, dst) == [ps EXCEPT ![Len(ps)] = Append(@, dst)]

move_to_unsealed(ps, dst) ==
    IF ps = <<>>
    THEN <<(<<dst>>)>>
    ELSE [ps EXCEPT ![Len(ps)] = [@ EXCEPT ![1] = dst]]

move_to_fresh(ps, dst) == Append(ps, <<dst>>)

\* Canvas::move_to
move_to(ps, dst) ==
    IF ps = <<>>
    THEN <<(<<dst>>)>>
    ELSE IF Len(Last(ps)) > 1
         THEN Append(ps, <<dst>>)
         ELSE [ps EXCEPT ![Len(ps)] = [@ EXCEPT ![1] = dst]]

\* Turtle::is_pen_down
is_pen_down(st) == current_state(st).pendown

\* ---------------------------------------------------------- serializers ----
RECURSIVE Flatten(_)
Flatten(ps) == IF ps = <<>> THEN <<>> ELSE Head(ps) \o Flatten(Tail(ps))

\* Canvas::foreach_position: the positions handed to f, in order
foreach_position(ps, scale_x, scale_y) ==
    LET all == Flatten(ps)
    IN  [i \in 1 .. Len(all) |-> <<Mul(all[i][1], scale_x), Mul(all[i][2], scale_y)>>]

RECURSIVE AddAll(_, _)
AddAll(b, seq) ==
    IF seq = <<>> THEN b ELSE AddAll(add_position(b, Head(seq)), Tail(seq))

Write(w, nums) == [w |-> w, nums |-> nums]

min_width == 100 * One
min_height == 100 * One
border_percent == One \div 10
scale == One + Mul(2 * One, border_percent)

\* use a stroke width of 0.1% of the width or height of the canvas
stroke_width(w, h) == Div(Mul(scale, Max(w, h)), 1000 * One)

SvgPathUnflipped(path) ==
    IF path = <<>>
    THEN <<>>
    ELSE <<Write("M", path[1])>>
         \o [i \in 1 .. Len(path) - 1 |-> Write("L", path[i + 1])]
         \o <<Write("path_end", <<>>)>>

\* the writes of one path in save_svg
SvgPath(path) ==
    IF path = <<>>
    THEN <<>>
    ELSE <<Write("M", <<path[1][1], Mul(-One, path[1][2])>>)>>
         \o [i \in 1 .. Len(path) - 1 |->
                Write("L", <<path[i + 1][1], Mul(-One, path[i + 1][2])>>)]
         \o <<Write("path_end", <<>>)>>

\* the writes of one path in save_eps
EpsPath(path) ==
    IF path = <<>>
    THEN <<>>
    ELSE <<Write("newpath", <<>>), Write("moveto", path[1])>>
         \o [i \in 1 .. Len(path) - 1 |-> Write("lineto", path[i + 1])]
         \o <<Write("stroke", <<>>)>>

RECURSIVE SvgPaths(_)
SvgPaths(ps) == IF ps = <<>> THEN <<>> ELSE SvgPath(Head(ps)) \o SvgPaths(Tail(ps))

RECURSIVE EpsPaths(_)
EpsPaths(ps) == IF ps = <<>> THEN <<>> ELSE EpsPath(Head(ps)) \o EpsPaths(Tail(ps))

\* Canvas::save_svg: the writes it makes on a sink that accepts them all
save_svg(ps) ==
    LET bounds == AddAll(BoundsNew, foreach_position(ps, One, -One))
        w == Max(width(bounds), min_width)
        h == Max(height(bounds), min_height)
        top_left == <<min_x(bounds) - Mul(border_percent, w),
                      min_y(bounds) - Mul(border_percent, h)>>
    IN  <<Write("svg", <<top_left[1], top_left[2], Mul(scale, w), Mul(scale, h)>>),
          Write("g", <<stroke_width(w, h)>>)>>
        \o SvgPaths(ps)
        \o <<Write("g_end", <<>>), Write("svg_end", <<>>)>>

\* Canvas::save_eps: the writes it makes on a sink that accepts them all
save_eps(ps) ==
    LET bounds == AddAll(BoundsNew, foreach_position(ps, One, One))
        w == Max(width(bounds), min_width)
        h == Max(height(bounds), min_height)
    IN  <<Write("eps", <<min_x(bounds) - Mul(border_percent, w),
                         min_y(bounds) - Mul(border_percent, h),
                         max_x(bounds) + Mul(border_percent, w),
                         max_y(bounds) + Mul(border_percent, h)>>),
          Write("setlinewidth", <<stroke_width(w, h)>>)>>
        \o EpsPaths(ps)
        \o <<Write("eof", <<>>)>>

\* ------------------------------------------------------------ scenarios ----
Call(op, arg) == [op |-> op, arg |-> arg]
NewCall == Call("new", <<>>)
Off == Call("off", <<>>)

\* new(); pen_down(); forward(10); pen_up(); goto(p)
ScriptSeal(p) ==
    <<NewCall, Call("pen_down", <<>>), Call("forward", <<10 * One>>),
      Call("pen_up", <<>>), Call("goto", p)>>

\* new(); pen_down(); forward(100); right(90); forward(100); save_svg
ScriptRound ==
    <<NewCall, Call("pen_down", <<>>), Call("forward", <<100 * One>>),
      Call("right", <<90 * One>>), Call("forward", <<100 * One>>),
      Call("save_svg", <<>>)>>

\* new(); forward(100); push(); pop()
ScriptPushPop ==
    <<NewCall, Call("forward", <<100 * One>>), Call("push", <<>>), Call("pop", <<>>)>>

\* new(); pen_up(); goto(P1); goto(P2)
ScriptAnchor ==
    <<NewCall, Call("pen_up", <<>>), Call("goto", P1), Call("goto", P2)>>

\* new(); left(20000); left(90); right(90)
ScriptTurn ==
    <<NewCall, Call("left", <<20000 * One>>), Call("left", <<90 * One>>),
      Call("right", <<90 * One>>)>>

Scripts ==
    {ScriptSeal(p) : p \in Targets}
        \cup {ScriptRound, ScriptPushPop, ScriptAnchor, ScriptTurn}
ScriptPrefixes == UNION {{SubSeq(s, 1, n) : n \in 1 .. Len(s)} : s \in Scripts}

last == Last(hist)

\* bookkeeping common to every call
Record(c, r, o) ==
    /\ hist' = IF Append(hist, c) \in ScriptPrefixes THEN Append(hist, c) ELSE <<Off, c>>
    /\ res' = r
    /\ out' = o
    /\ prev' = [states |-> states, paths |-> paths]
    /\ saved' = CASE c.op = "push" -> Append(saved, Last(states))
                  [] c.op = "pop" /\ saved # <<>> -> SubSeq(saved, 1, Len(saved) - 1)
                  [] OTHER -> saved
    /\ tally' = [push |-> tally.push + (IF c.op = "push" THEN 1 ELSE 0),
                 pop |-> tally.pop + (IF c.op = "pop" THEN 1 ELSE 0)]

\* ------------------------------------------------------------- Init ----
InitNoAnchor ==
    /\ states = <<TurtleState(origin, 0, TRUE)>>
    /\ paths = <<>>
    /\ hist = <<NewCall>>
    /\ out = <<>>
    /\ res = "ok"
    /\ prev = [states |-> <<>>, paths |-> <<>>]
    /\ nops = 0
    /\ saved = <<>>
    /\ tally = [push |-> 0, pop |-> 0]

\* Canvas::new
Init ==
    /\ states = <<TurtleState(origin, 0, TRUE)>>
    /\ paths = <<(<<origin>>)>>
    /\ hist = <<NewCall>>
    /\ out = <<>>
    /\ res = "ok"
    /\ prev = [states |-> <<>>, paths |-> <<>>]
    /\ nops = 0
    /\ saved = <<>>
    /\ tally = [push |-> 0, pop |-> 0]

\* ---------------------------------------------------------- operations ----
\* On an empty stack current_state().unwrap() panics before anything is
\* written: the call does not return and changes nothing, so every
\* operation that reads the current state is guarded by states # <<>>.
Mutating ==
    /\ states # <<>>
    /\ nops < MaxOps
    /\ nops' = nops + 1

ForwardRelocating(distance) ==
    LET d == direction(states, distance)
        src == current_state(states).pos
        dst == <<F32Add(src[1], d[1]), F32Add(src[2], d[2])>>
    IN  /\ paths' = IF is_pen_down(states) THEN line_to(paths, dst) ELSE move_to(paths, dst)
        /\ states' = SetTop(states, "pos", dst)

\* Canvas::forward (the body shared with backward)
Forward(distance) ==
    LET d == direction(states, distance)
        src == current_state(states).pos
        dst == <<F32Add(src[1], d[1]), F32Add(src[2], d[2])>>
    IN  /\ paths' = IF is_pen_down(states) THEN line_to(paths, dst) ELSE paths
        /\ states' = SetTop(states, "pos", dst)

forward ==
    \E distance \in Distances :
        /\ Mutating
        /\ Forward(distance)
        /\ Record(Call("forward", <<distance>>), "ok", <<>>)

\* Turtle::backward
backward ==
    \E distance \in ShortDistances :
        /\ Mutating
        /\ Forward(Neg(distance))
        /\ Record(Call("backward", <<distance>>), "ok", <<>>)

\* Canvas::move_forward
move_forward ==
    \E distance \in ShortDistances :
        /\ Mutating
        /\ LET d == direction(states, distance)
               src == current_state(states).pos
               dst == <<F32Add(src[1], d[1]), F32Add(src[2], d[2])>>
           IN  /\ paths' = move_to(paths, dst)
               /\ states' = SetTop(states, "pos", dst)
        /\ Record(Call("move_forward", <<distance>>), "ok", <<>>)

RotateNormalized(angle) ==
    /\ states' = SetTop(states, "angle",
                        F32Add(current_state(states).angle, angle) % (360 * One))
    /\ paths' = paths

\* Canvas::rotate (the body shared with left and right)
Rotate(angle) ==
    /\ states' = SetTop(states, "angle", F32Add(current_state(states).angle, angle))
    /\ paths' = paths

rotate ==
    \E angle \in Angles \cup {Neg(a) : a \in Angles} :
        /\ Mutating
        /\ Rotate(angle)
        /\ Record(Call("rotate", <<angle>>), "ok", <<>>)

\* Turtle::right
right ==
    \E angle \in Angles :
        /\ Mutating
        /\ Rotate(Neg(angle))
        /\ Record(Call("right", <<angle>>), "ok", <<>>)

\* Turtle::left
left ==
    \E angle \in Angles :
        /\ Mutating
        /\ Rotate(angle)
        /\ Record(Call("left", <<angle>>), "ok", <<>>)

pen_down_lazy ==
    /\ Mutating
    /\ paths' = paths
    /\ states' = SetTop(states, "pendown", TRUE)
    /\ Record(Call("pen_down", <<>>), "ok", <<>>)

\* Canvas::pen_down
pen_down ==
    /\ Mutating
    /\ paths' = move_to(paths, current_state(states).pos)
    /\ states' = SetTop(states, "pendown", TRUE)
    /\ Record(Call("pen_down", <<>>), "ok", <<>>)

pen_up_relocating ==
    /\ Mutating
    /\ states' = SetTop(states, "pendown", FALSE)
    /\ paths' = move_to(paths, current_state(states).pos)
    /\ Record(Call("pen_up", <<>>), "ok", <<>>)

\* Canvas::pen_up
pen_up ==
    /\ Mutating
    /\ states' = SetTop(states, "pendown", FALSE)
    /\ paths' = paths
    /\ Record(Call("pen_up", <<>>), "ok", <<>>)

GotoDrawing(position) ==
    /\ states' = SetTop(states, "pos", position)
    /\ paths' = IF is_pen_down(states)
                THEN line_to(paths, position)
                ELSE move_to(paths, position)

\* Canvas::goto (the body shared with home)
Goto(position) ==
    /\ states' = SetTop(states, "pos", position)
    /\ paths' = move_to(paths, position)

goto ==
    \E position \in Targets :
        /\ Mutating
        /\ Goto(position)
        /\ Record(Call("goto", position), "ok", <<>>)

\* Turtle::home
home ==
    /\ Mutating
    /\ Goto(origin)
    /\ Record(Call("home", <<>>), "ok", <<>>)

PushStatesMoved(st) ==
    Append([st EXCEPT ![Len(st)] = TurtleState(origin, 0, TRUE)], current_state(st))

\* the stack after Canvas::push: a clone of the current state on top
PushStates(st) == Append(st, current_state(st))

\* Canvas::push
push ==
    /\ Mutating
    /\ states' = PushStates(states)
    /\ paths' = paths
    /\ Record(Call("push", <<>>), "ok", <<>>)

\* Vec::pop as Canvas::pop uses it: the last element is removed, if any
PopStates(st) == IF st = <<>> THEN st ELSE Front(st)

pop_plain ==
    /\ Mutating
    /\ states' = PopStates(states)
    /\ paths' = paths
    /\ Record(Call("pop", <<>>), IF states' = <<>> THEN "panic" ELSE "ok", <<>>)

\* Canvas::pop: when the popped state was the only one, current_state()
\* panics on the now empty stack, after the state is gone and before move_to
pop ==
    /\ Mutating
    /\ states' = PopStates(states)
    /\ IF states' = <<>>
       THEN /\ paths' = paths
            /\ Record(Call("pop", <<>>), "panic", <<>>)
       ELSE /\ paths' = move_to(paths, current_state(states').pos)
            /\ Record(Call("pop", <<>>), "ok", <<>>)

\* a save call takes &self; here the sink accepts every write
Save(name, writes) ==
    /\ UNCHANGED <<states, paths, nops>>
    /\ IF Flatten(paths) = <<>>
       THEN Record(Call(name, <<>>), "panic", <<>>)
       ELSE Record(Call(name, <<>>), "ok", writes)

\* Canvas::save_svg; Bounds::width panics when no position was added
SaveSvg == Save("save_svg", IF Flatten(paths) = <<>> THEN <<>> ELSE save_svg(paths))

\* Canvas::save_eps; Bounds::width panics when no position was added
SaveEps == Save("save_eps", IF Flatten(paths) = <<>> THEN <<>> ELSE save_eps(paths))

Next ==
    \/ forward
    \/ backward
    \/ move_forward
    \/ rotate
    \/ right
    \/ left
    \/ pen_down
    \/ pen_up
    \/ goto
    \/ home
    \/ push
    \/ pop
    \/ SaveSvg
    \/ SaveEps

Spec == Init /\ [][Next]_vars

\* ------------------------------------------------------------ rotations ----
\* Canvas::rotate, Turtle::left and Turtle::right with angles of any size
rotateWide ==
    \E angle \in WideAngles :
        /\ Mutating
        /\ Rotate(angle)
        /\ Record(Call("rotate", <<angle>>), "ok", <<>>)

rightWide ==
    \E angle \in WideAngles :
        /\ Mutating
        /\ Rotate(Neg(angle))
        /\ Record(Call("right", <<angle>>), "ok", <<>>)

leftWide ==
    \E angle \in WideAngles :
        /\ Mutating
        /\ Rotate(angle)
        /\ Record(Call("left", <<angle>>), "ok", <<>>)

\* the calls that do not read the heading, and rotations by any angle
NextRotate ==
    \/ nops < MaxRotateOps /\ rotateWide
    \/ nops < MaxRotateOps /\ rightWide
    \/ nops < MaxRotateOps /\ leftWide
    \/ nops < MaxRotateOps /\ pen_down
    \/ nops < MaxRotateOps /\ pen_up
    \/ nops < MaxRotateOps /\ goto
    \/ nops < MaxRotateOps /\ home
    \/ nops < MaxRotateOps /\ push
    \/ nops < MaxRotateOps /\ pop

SpecRotate == Init /\ [][NextRotate]_vars

\* ------------------------------------------------------------ distances ----
\* Canvas::forward and Turtle::backward with distances of any size
forwardFar ==
    \E distance \in FarDistances :
        /\ Mutating
        /\ Forward(distance)
        /\ Record(Call("forward", <<distance>>), "ok", <<>>)

backwardFar ==
    \E distance \in FarDistances :
        /\ Mutating
        /\ Forward(Neg(distance))
        /\ Record(Call("backward", <<distance>>), "ok", <<>>)

\* moves by any distance along the four headings
NextFar ==
    \/ nops < MaxFarOps /\ forwardFar
    \/ nops < MaxFarOps /\ backwardFar
    \/ nops < MaxFarOps /\ rotate
    \/ nops < MaxFarOps /\ pen_down
    \/ nops < MaxFarOps /\ pen_up
    \/ nops < MaxFarOps /\ push
    \/ nops < MaxFarOps /\ pop

SpecFar == Init /\ [][NextFar]_vars

\* ---------------------------------------------------------------- sinks ----
SinkWritesIgnoring(writes, cap) ==
    [log |-> writes, result |-> IF cap < Len(writes) THEN "err" ELSE "ok"]

\* the writes of a save call reach a sink that rejects its (cap + 1)-th
\* write: every writeln!(..)? returns the error at once.  log holds the
\* writes attempted, the rejected one last.
SinkWrites(writes, cap) ==
    IF cap < Len(writes)
    THEN [log |-> SubSeq(writes, 1, cap + 1), result |-> "err"]
    ELSE [log |-> writes, result |-> "ok"]

\* a save call on a sink that rejects one of the first writes, or none
SaveSink(name, writes) ==
    /\ UNCHANGED <<states, paths, nops>>
    /\ \E cap \in (0 .. MaxSinkFail) \cup {Len(writes)} :
          LET r == SinkWrites(writes, cap)
          IN  Record(Call(name, <<cap>>), r.result, r.log)

\* Canvas::save_svg on such a sink
SaveSvgSink == Flatten(paths) # <<>> /\ SaveSink("save_svg", save_svg(paths))

\* Canvas::save_eps on such a sink
SaveEpsSink == Flatten(paths) # <<>> /\ SaveSink("save_eps", save_eps(paths))

NextSink ==
    \/ nops < MaxSinkOps /\ forward
    \/ nops < MaxSinkOps /\ backward
    \/ nops < MaxSinkOps /\ move_forward
    \/ nops < MaxSinkOps /\ rotate
    \/ nops < MaxSinkOps /\ right
    \/ nops < MaxSinkOps /\ left
    \/ nops < MaxSinkOps /\ pen_down
    \/ nops < MaxSinkOps /\ pen_up
    \/ nops < MaxSinkOps /\ goto
    \/ nops < MaxSinkOps /\ home
    \/ nops < MaxSinkOps /\ push
    \/ nops < MaxSinkOps /\ pop
    \/ SaveSvgSink
    \/ SaveEpsSink

SpecSink == Init /\ [][NextSink]_vars

\* ------------------------------------------------------------ properties ----
cur == current_state(states)
before == current_state(prev.states)

Saves == {"save_svg", "save_eps"}
Relocations == {"goto", "home", "move_forward", "pen_down", "pop"}

RECURSIVE Segments(_)
Segments(ps) ==
    IF ps = <<>> THEN 0 ELSE (Len(Head(ps)) - 1) + Segments(Tail(ps))

\* number of stroke primitives in a document
Strokes(doc) == Cardinality({i \in DOMAIN doc : doc[i].w \in {"M", "newpath"}})

\* C1: in every reachable state the state stack holds at least one element.
C1_StackNeverEmpty == Len(states) >= 1

\* C2: pop() at stack depth 1 leaves the state stack and the path list
\* exactly as they were before the call.
C2_UnderflowKeepsCanvas ==
    (last.op = "pop" /\ Len(prev.states) = 1)
        => (states = prev.states /\ paths = prev.paths)

\* C3: push() immediately followed by pop() leaves position, heading, pen
\* state and stack depth as they were before the push().
C3_PushPopRestores ==
    [][(last.op = "push" /\ last'.op = "pop")
         => /\ res' = "ok"
            /\ cur'.pos = before.pos
            /\ cur'.angle = before.angle
            /\ cur'.pendown = before.pendown
            /\ Len(states') = Len(prev.states)]_vars

C3_Witness ==
    /\ hist = ScriptPushPop
    /\ cur = TurtleState(<<0, 100 * One>>, 0, TRUE)
    /\ Len(states) = 1

\* C4: a path that holds more than one point keeps all its points under
\* every later call, a relocation made while it is the last path starts a
\* new single-point path, and new(); pen_down(); forward(10); pen_up();
\* goto(p) leaves exactly the paths <<origin, (0, 10)>> and <<p>>.
C4_Sealing ==
    /\ \A i \in DOMAIN prev.paths :
          Len(prev.paths[i]) > 1
            => /\ i <= Len(paths)
               /\ Len(paths[i]) >= Len(prev.paths[i])
               /\ SubSeq(paths[i], 1, Len(prev.paths[i])) = prev.paths[i]
    /\ (/\ last.op \in Relocations
        /\ res = "ok"
        /\ Len(Last(prev.paths)) > 1)
          => paths = Append(prev.paths, <<cur.pos>>)
    /\ \A p \in Targets :
          hist = ScriptSeal(p)
            => /\ Len(paths) = 2
               /\ paths[1] = <<origin, <<0, 10 * One>>>>
               /\ paths[2] = <<p>>

C4_Witness ==
    /\ hist = ScriptSeal(P1)
    /\ Len(paths) = 2
    /\ Len(prev.paths) = 1
    /\ Len(prev.paths[1]) = 2

\* C5: of two consecutive goto calls the second leaves the number of paths
\* unchanged and the last path the single point it was given.
C5_AnchorOverwrite ==
    [][(last.op = "goto" /\ last'.op = "goto")
         => /\ Len(paths') = Len(paths)
            /\ Last(paths') = <<last'.arg>>]_vars

C5_Witness ==
    /\ hist = ScriptAnchor
    /\ ~cur.pendown
    /\ paths = <<(<<P2>>)>>

\* the position forward or backward moves to
ForwardTarget ==
    LET distance == IF last.op = "backward" THEN Neg(last.arg[1]) ELSE last.arg[1]
        d == direction(prev.states, distance)
    IN  <<before.pos[1] + d[1], before.pos[2] + d[2]>>

\* C6 as stated: after forward with the pen up the last path is the single
\* point equal to the new position; with the pen down one point is appended.
C6_ForwardRelocates ==
    last.op = "forward"
      => /\ cur.pos = ForwardTarget
         /\ IF before.pendown
            THEN paths = line_to(prev.paths, cur.pos)
            ELSE /\ Last(paths) = <<cur.pos>>
                 /\ Segments(paths) = Segments(prev.paths)

\* C6 amended: forward with the pen up leaves the path list unchanged; with
\* the pen down it appends the new position to the last path; the position
\* is updated in both cases.
C6_ForwardPenUpKeepsPaths ==
    last.op \in {"forward", "backward"}
      => /\ cur.pos = ForwardTarget
         /\ IF before.pendown
            THEN /\ Len(paths) = Len(prev.paths)
                 /\ Front(paths) = Front(prev.paths)
                 /\ Last(paths) = Append(Last(prev.paths), cur.pos)
            ELSE paths = prev.paths

C6_Witness ==
    /\ last.op = "forward"
    /\ ~before.pendown
    /\ paths = prev.paths
    /\ Last(paths) # <<cur.pos>>

\* the position goto, home or move_forward moves to
RelocationTarget ==
    CASE last.op = "goto" -> last.arg
      [] last.op = "home" -> origin
      [] last.op = "move_forward" ->
            LET d == direction(prev.states, last.arg[1])
            IN  <<before.pos[1] + d[1], before.pos[2] + d[2]>>

\* C7: goto, home and move_forward add no point to an existing path, keep
\* the number of segments, set the position to the target and leave the
\* last path the single point equal to it, whatever the pen state.
C7_RelocationNeverDraws ==
    last.op \in {"goto", "home", "move_forward"}
      => /\ \A i \in DOMAIN prev.paths :
               i <= Len(paths) /\ Len(paths[i]) = Len(prev.paths[i])
         /\ Segments(paths) = Segments(prev.paths)
         /\ cur.pos = RelocationTarget
         /\ Last(paths) = <<RelocationTarget>>

C7_Witness ==
    /\ last.op = "goto"
    /\ before.pendown
    /\ Len(Last(prev.paths)) > 1
    /\ paths = Append(prev.paths, <<last.arg>>)

\* C8: a save emits one stroke primitive per path of at least 2 points and
\* nothing for a path of exactly 1 point.
C8_StrokePerDrawnPath ==
    (last.op \in Saves /\ res = "ok")
      => Strokes(out) = Cardinality({i \in DOMAIN paths : Len(paths[i]) >= 2})

\* C9: new(); pen_down(); forward(100); right(90); forward(100) leaves the
\* one path origin, (0, 100), (100, 100), and save_svg then emits one path
\* element: M 0 0, L 0 -100, L 100 -100.
C9_RoundTrip ==
    hist = ScriptRound
      => /\ paths = <<(<<origin, <<0, 100 * One>>, <<100 * One, 100 * One>>>>)>>
         /\ res = "ok"
         /\ Strokes(out) = 1
         /\ SubSeq(out, 3, Len(out) - 2) =
               <<Write("M", <<0, 0>>),
                 Write("L", <<0, -100 * One>>),
                 Write("L", <<100 * One, -100 * One>>),
                 Write("path_end", <<>>)>>

C9_Witness ==
    /\ hist = ScriptRound
    /\ Len(out) = 8

\* C10: the viewport a save declares has its lower corner at
\* bounds.min - 0.1 * size and an extent of 1.2 * size in each dimension,
\* where size = max(bounds extent, 100).
C10_Viewport ==
    (last.op \in Saves /\ res = "ok")
      => LET flip == IF last.op = "save_svg" THEN -One ELSE One
             b == AddAll(BoundsNew, foreach_position(paths, One, flip))
             sx == Max(b[2][1] - b[1][1], 100 * One)
             sy == Max(b[2][2] - b[1][2], 100 * One)
             v == out[1].nums
             ex == IF last.op = "save_svg" THEN v[3] ELSE v[3] - v[1]
             ey == IF last.op = "save_svg" THEN v[4] ELSE v[4] - v[2]
         IN  /\ v[1] = b[1][1] - sx \div 10
             /\ v[2] = b[1][2] - sy \div 10
             /\ ex = (12 * sx) \div 10
             /\ ey = (12 * sy) \div 10

\* the point lists of the stroke primitives of a document, in order
RECURSIVE Decode(_)
Decode(doc) ==
    IF doc = <<>>
    THEN <<>>
    ELSE LET d == Decode(Front(doc))
             x == Last(doc)
         IN  CASE x.w \in {"M", "moveto"} -> Append(d, <<x.nums>>)
               [] x.w \in {"L", "lineto"} ->
                     [d EXCEPT ![Len(d)] = Append(@, x.nums)]
               [] OTHER -> d

\* the paths as a save writes them: y negated in SVG
Emitted(ps, op) ==
    [i \in DOMAIN ps |->
        [j \in DOMAIN ps[i] |->
            <<ps[i][j][1], IF op = "save_svg" THEN -ps[i][j][2] ELSE ps[i][j][2]>>]]

\* C11: a save whose sink rejects a write returns the failure and attempts
\* no write after the rejected one; a save whose sink rejects none returns
\* success with the header, every stroke primitive in path order and the
\* footer written.
C11_SinkFailureStops ==
    (last.op \in Saves /\ last.arg # <<>>)
      => LET cap == last.arg[1]
         IN  /\ res \in {"ok", "err"}
             /\ res = "err" => Len(out) = cap + 1
             /\ res = "ok" =>
                  /\ cap >= Len(out)
                  /\ Decode(out) = Emitted(paths, last.op)
                  /\ IF last.op = "save_svg"
                     THEN /\ out[1].w = "svg" /\ out[2].w = "g"
                          /\ out[Len(out) - 1].w = "g_end"
                          /\ out[Len(out)].w = "svg_end"
                     ELSE /\ out[1].w = "eps" /\ out[2].w = "setlinewidth"
                          /\ out[Len(out)].w = "eof"
             /\ states = prev.states /\ paths = prev.paths

C11_Witness ==
    /\ last.op = "save_svg"
    /\ last.arg = <<3>>
    /\ res = "err"
    /\ Len(paths) = 2
    /\ out[4].w = "L"

Rotations == {"rotate", "left", "right"}

\* the signed angle a rotation call adds to the heading
Turn(c) == IF c.op = "right" THEN Neg(c.arg[1]) ELSE c.arg[1]

\* a rotation call changes nothing but the heading of the current state
RotationFrame ==
    last'.op \in Rotations
      => /\ paths' = paths
         /\ Len(states') = Len(states)
         /\ Front(states') = Front(states)
         /\ cur'.pos = cur.pos
         /\ cur'.pendown = cur.pendown

\* C12 as stated: left(a) followed by right(a) restores the heading for
\* any angle a, and neither call changes position, pen state, depth or paths.
C12_LeftRightRestores ==
    [][/\ RotationFrame
       /\ (last.op = "left" /\ last'.op = "right" /\ last'.arg = last.arg)
            => cur'.angle = before.angle]_vars

\* C12 amended: the heading is restored when the sum heading + a is an f32
\* value; a rotation whose sum is an f32 value adds exactly its angle, with
\* no normalization, and changes nothing else.
C12_LeftRightRestoresExact ==
    [][/\ RotationFrame
       /\ (last'.op \in Rotations /\ F32(cur.angle + Turn(last')) = cur.angle + Turn(last'))
            => cur'.angle = cur.angle + Turn(last')
       /\ (/\ last.op = "left" /\ last'.op = "right" /\ last'.arg = last.arg
           /\ F32(before.angle + last.arg[1]) = before.angle + last.arg[1])
            => cur'.angle = before.angle]_vars

C12_Witness ==
    /\ hist = ScriptTurn
    /\ cur.angle = 20000 * One
    /\ prev.states[1].angle = 20090 * One

\* the segment the last call appended to the last path
NewSegment == SubSeq(Last(paths), Len(Last(paths)) - 1, Len(Last(paths)))

\* Euclidean length of a segment parallel to an axis
AxisLength(seg) == Abs(seg[2][1] - seg[1][1]) + Abs(seg[2][2] - seg[1][2])

\* forward or backward with the pen down records one segment, from the
\* position before the call to the position after it, parallel to an axis
OneSegmentDrawn ==
    /\ Segments(paths) = Segments(prev.paths) + 1
    /\ Last(paths) = Append(Last(prev.paths), cur.pos)
    /\ NewSegment = <<before.pos, cur.pos>>
    /\ (NewSegment[1][1] = NewSegment[2][1] \/ NewSegment[1][2] = NewSegment[2][2])

\* C13 as stated: every forward(d) or backward(d) with the pen down adds a
\* segment of length |d|, so the length drawn is the sum of the |d|.
C13_LengthIsDistance ==
    (last.op \in {"forward", "backward"} /\ before.pendown)
      => /\ OneSegmentDrawn
         /\ AxisLength(NewSegment) = Abs(last.arg[1])

\* C13 amended: the segment added has length |d| up to the f32 rounding of
\* the coordinate it changes (half the spacing of f32 values there), and
\* exactly |d| where that spacing is below the resolution.
C13_LengthIsDistanceRounded ==
    (last.op \in {"forward", "backward"} /\ before.pendown)
      => /\ OneSegmentDrawn
         /\ LET far == Max(Abs(before.pos[1]), Abs(before.pos[2])) + Abs(last.arg[1])
                err == AxisLength(NewSegment) - Abs(last.arg[1])
            IN  2 * Abs(err) <= Ulp(far)

C13_Witness ==
    /\ last = Call("forward", <<1>>)
    /\ before.pendown
    /\ before.pos = <<0, 20000 * One>>
    /\ Len(Last(paths)) = 3

\* C14: pen_up(), push() and rotate(a) leave the path list unchanged;
\* pen_up() changes only the pen flag of the current state and push()
\* changes no field of the current state.
C14_PathsUntouched ==
    /\ last.op \in {"pen_up", "push"} \cup Rotations => paths = prev.paths
    /\ last.op = "pen_up"
         => /\ ~cur.pendown
            /\ cur.pos = before.pos
            /\ cur.angle = before.angle
            /\ Len(states) = Len(prev.states)
            /\ Front(states) = Front(prev.states)
    /\ last.op = "push"
         => /\ cur = before
            /\ Front(states) = prev.states

C14_Witness ==
    /\ last.op = "pen_up"
    /\ before.pendown
    /\ Len(paths) = 2
    /\ Len(Last(paths)) > 1

\* C15: while the stack has not underflowed and the pen is down, the last
\* point of the last path is the current position, and a segment drawn by
\* forward starts at the position held before the move.
C15_StrokeContinuity ==
    /\ (states # <<>> /\ cur.pendown) => Last(Last(paths)) = cur.pos
    /\ (last.op \in {"forward", "backward"} /\ before.pendown)
         => NewSegment = <<before.pos, cur.pos>>

C15_Witness ==
    /\ last.op = "pen_down"
    /\ ~before.pendown
    /\ Last(Last(prev.paths)) # before.pos
    /\ Last(paths) = <<cur.pos>>

\* C16: pop() at depth 2 or more removes exactly the top state and leaves
\* the last path the single point equal to the restored position, a new
\* path if the last one had more than one point and the overwritten anchor
\* otherwise; paths of more than one point are unchanged.
C16_PopRelocates ==
    (last.op = "pop" /\ Len(prev.states) >= 2)
      => /\ res = "ok"
         /\ states = Front(prev.states)
         /\ Last(paths) = <<cur.pos>>
         /\ IF Len(Last(prev.paths)) > 1
            THEN paths = Append(prev.paths, <<cur.pos>>)
            ELSE /\ Len(paths) = Len(prev.paths)
                 /\ Front(paths) = Front(prev.paths)
         /\ \A i \in DOMAIN prev.paths :
               Len(prev.paths[i]) > 1 => paths[i] = prev.paths[i]

C16_Witness ==
    /\ last.op = "pop"
    /\ Len(prev.states) = 2
    /\ Len(Last(prev.paths)) > 1
    /\ before.pos # cur.pos
    /\ Len(paths) = 2

\* C17: the path list is never empty and no path is empty, so a save
\* always finds a position for its bounds.
C17_PathsNeverEmpty ==
    /\ paths # <<>>
    /\ \A i \in DOMAIN paths : Len(paths[i]) >= 1
    /\ AddAll(BoundsNew, foreach_position(paths, One, One)) # <<>>
    /\ last.op \in Saves => res # "panic"

C17_Witness ==
    /\ last.op = "save_eps"
    /\ res = "ok"
    /\ Len(paths) = 2
    /\ Len(paths[1]) = 3

\* C19: every path but the last holds at least 2 points, and a call leaves
\* every path but the last as it was.
C19_OnlyLastPathOpen ==
    /\ \A i \in 1 .. Len(paths) - 1 : Len(paths[i]) >= 2
    /\ Len(paths) >= Len(prev.paths)
    /\ \A i \in 1 .. Len(prev.paths) - 1 : paths[i] = prev.paths[i]

C19_Witness ==
    /\ Len(paths) = 3
    /\ Len(paths[3]) = 1
    /\ last.op = "goto"

\* C20: every coordinate pair a save emits lies inside the rectangle the
\* document declares (SVG viewBox x y width height, EPS BoundingBox
\* minx miny maxx maxy).
C20_PointsInsideViewport ==
    (last.op \in Saves /\ res = "ok")
      => LET v == out[1].nums
             hx == IF last.op = "save_svg" THEN v[1] + v[3] ELSE v[3]
             hy == IF last.op = "save_svg" THEN v[2] + v[4] ELSE v[4]
         IN  \A i \in DOMAIN out :
                Len(out[i].nums) = 2
                  => /\ v[1] <= out[i].nums[1] /\ out[i].nums[1] <= hx
                     /\ v[2] <= out[i].nums[2] /\ out[i].nums[2] <= hy

C20_Witness ==
    /\ last.op = "save_svg"
    /\ res = "ok"
    /\ \E i \in DOMAIN out : out[i].w = "L" /\ out[i].nums[2] < -100 * One

\* C18: a pop() matched by an earlier push() restores the state that push()
\* found, whatever was called in between; a call other than push and pop
\* leaves every state below the top as it was; the stack depth is
\* 1 + (number of push) - (number of pop).
C18_StackDiscipline ==
    [][/\ Len(states') = 1 + tally'.push - tally'.pop
       /\ (last'.op = "pop" /\ saved # <<>>)
            => /\ res' = "ok"
               /\ cur' = Last(saved)
               /\ Len(states') = Len(saved)
       /\ last'.op \notin {"push", "pop"} => Front(states') = Front(states)
       /\ last'.op = "push" => Front(states') = states]_vars

C18_Witness ==
    /\ last.op = "pop"
    /\ res = "ok"
    /\ tally = [push |-> 1, pop |-> 1]
    /\ nops = 4
    /\ cur = TurtleState(origin, 0, TRUE)
    /\ before.pos # origin
    /\ before.angle # 0

====
